---- MODULE Spec2Model ----
(***************************************************************************)
(* The wallet registry of src/server/address.rs: the map Address from a    *)
(* wallet address to a Wallet, and the operations on it (check, filter,    *)
(* assgin_server, update_log_collect_time, filter_log_timeout).  Every     *)
(* operation takes &mut self, so each runs to completion on the registry   *)
(* before the next one starts: one action per operation.                   *)
(*                                                                         *)
(* Time is counted in ticks of 1/TicksPerSec second: Local::now() has      *)
(* sub-second precision, DateTime::timestamp() drops it.                   *)
(*                                                                         *)
(* reported is a history variable, not a field of the program: the time of *)
(* the latest update_log_collect_time(address) that found the address.  It *)
(* is kept under SpecReported only and stays empty under Spec.  asked is    *)
(* one too: the address list and the remote results of the latest check(), *)
(* kept under SpecClassify only.                                           *)
(***************************************************************************)
EXTENDS Integers, Sequences, FiniteSets, TLC

VARIABLES
    registry,   \* WALLETS_STATE: the HashMap<String, Wallet> inside Address
    now,        \* the wall clock read by Local::now(), in ticks
    last,       \* the most recent call: its name, arguments kept, results
    reported,   \* history: per address, when it last reported
    asked,      \* history: the latest check(), its list and remote results
    pc,         \* pool(): where the loop stands
    loaded,     \* pool(): the address list `other` it loaded
    holders,    \* WALLETS_STATE: the tasks holding the Mutex
    waiters,    \* WALLETS_STATE: the tasks in lock().await, first come first
    tpc         \* per other task: where it stands

vars == <<registry, now, last, reported, asked, pc, loaded, holders, waiters, tpc>>

hist == <<reported, asked>>

sched == <<pc, loaded, holders, waiters, tpc>>

----------------------------------------------------------------------------
(* Bounds of the model *)

TicksPerSec == 2
MaxCfgLen == 2
MaxPairs == 1

(* Program constants *)

PendingTimeout == 900
ActiveTimeout == 600

----------------------------------------------------------------------------
(* Data *)

Addrs == {"a1", "a2"}

None == <<>>
Some(x) == <<x>>

\* The instants the clock is observed at: the start and, for each deadline,
\* one tick past it (the same whole second) and one second past it.
TimePoints ==
    {0} \cup {b * TicksPerSec + j :
                b \in {ActiveTimeout, PendingTimeout},
                j \in {1, TicksPerSec}}

\* DateTime::timestamp(): whole seconds, the sub-second part dropped.
timestamp(t) == t \div TicksPerSec

\* The fields DEPLOYING and DEPLOYED carry.
Payloads ==
    { [orderid |-> 7, serverid |-> 3, sshaddr |-> None, sshport |-> None],
      [orderid |-> 8, serverid |-> 4, sshaddr |-> Some("h"), sshport |-> Some(22)] }

NOTASSIGNED == [tag |-> "NOTASSIGNED"]

DEPLOYING(p) ==
    [tag |-> "DEPLOYING", orderid |-> p.orderid, serverid |-> p.serverid,
     sshaddr |-> p.sshaddr, sshport |-> p.sshport]

DEPLOYED(p) ==
    [tag |-> "DEPLOYED", orderid |-> p.orderid, serverid |-> p.serverid,
     sshaddr |-> p.sshaddr, sshport |-> p.sshport]

\* Every value of the enum Deployed a caller can build.
Deployed ==
    {NOTASSIGNED} \cup {DEPLOYING(p) : p \in Payloads}
                  \cup {DEPLOYED(p) : p \in Payloads}

Wallet_new(address, addr_type) ==
    [address |-> address, addr_type |-> addr_type, start_time |-> None,
     report_last_time |-> None, deploy |-> NOTASSIGNED]

\* The orders in which one iteration over the HashMap can visit its keys.
IterOrders(reg) ==
    {s \in [1..Cardinality(DOMAIN reg) -> DOMAIN reg] :
        \A i, j \in DOMAIN s : i # j => s[i] # s[j]}

----------------------------------------------------------------------------
(* Address::curl, mstaddress, subaddress *)

\* What curl returns from an endpoint: Err(msg), or Ok(text).  A text is known
\* by the markers it contains, and of each endpoint's text only the marker
\* that endpoint's caller looks for.
CurlResults(marker) ==
    {[ok |-> FALSE, text |-> {}], [ok |-> TRUE, text |-> {}],
     [ok |-> TRUE, text |-> {marker}]}

MstResults == CurlResults("Error")
SubResults == CurlResults("Task registered successfully")

contains(text, marker) == marker \in text

\* mstaddress taking a failed request for a text without the marker.
mstaddress_err_is_master(result) ==
    IF result.ok /\ contains(result.text, "Error") THEN "NULL" ELSE "MASTER"

mstaddress(result) ==
    IF ~result.ok THEN "NULL"
    ELSE IF contains(result.text, "Error") THEN "NULL" ELSE "MASTER"

subaddress(result) ==
    IF ~result.ok THEN "NULL"
    ELSE IF contains(result.text, "Task registered successfully") THEN "SUB"
    ELSE "NULL"

----------------------------------------------------------------------------
(* Address::check *)

NoCall == [called |-> FALSE]
Called(s, m) == [called |-> TRUE, sub |-> s, mst |-> m]

\* classify with SUB taking precedence over MASTER.
classify_sub_first(sub, mst) ==
    IF subaddress(sub) = "SUB" THEN "SUB"
    ELSE IF mstaddress(mst) = "MASTER" THEN "MASTER"
    ELSE "NULL"

\* The role check() settles on from the two joined results.
classify(sub, mst) ==
    IF mstaddress(mst) = "MASTER" THEN "MASTER"
    ELSE IF subaddress(sub) = "SUB" THEN "SUB"
    ELSE "NULL"

\* check_one putting a fresh wallet in place of a known one.
check_one_resets_known(reg, address, r) ==
    IF address \in DOMAIN reg
    THEN [reg EXCEPT ![address] = Wallet_new(address, reg[address].addr_type)]
    ELSE LET addr_type == classify(r.sub, r.mst)
         IN  IF addr_type # "NULL"
             THEN reg @@ (address :> Wallet_new(address, addr_type))
             ELSE reg

\* check_one without the test addr_type != NULL.
check_one_inserts_null(reg, address, r) ==
    IF address \in DOMAIN reg THEN reg
    ELSE reg @@ (address :> Wallet_new(address, classify(r.sub, r.mst)))

\* One iteration of the loop of check(): address, and the remote results.
check_one(reg, address, r) ==
    IF address \in DOMAIN reg THEN reg
    ELSE LET addr_type == classify(r.sub, r.mst)
         IN  IF addr_type # "NULL"
             THEN reg @@ (address :> Wallet_new(address, addr_type))
             ELSE reg

RECURSIVE check_loop(_, _, _)
check_loop(reg, other, resp) ==
    IF other = <<>> THEN reg
    ELSE check_loop(check_one(reg, Head(other), Head(resp)), Tail(other), Tail(resp))

\* The remote results one run of check() over `other` can see: none for an
\* address already registered when its turn comes, a pair otherwise.
RECURSIVE RespSeqs(_, _)
RespSeqs(reg, other) ==
    IF other = <<>> THEN {<<>>}
    ELSE IF Head(other) \in DOMAIN reg
         THEN {<<NoCall>> \o r : r \in RespSeqs(reg, Tail(other))}
         ELSE UNION {
                {<<Called(s, m)>> \o r :
                    r \in RespSeqs(check_one(reg, Head(other), Called(s, m)),
                                   Tail(other))} :
                s \in SubResults, m \in MstResults}

\* load_address_file(): the configured addresses, in order, repeats allowed.
CfgLists == UNION {[1..n -> Addrs] : n \in 0..MaxCfgLen}

check(other, resp) ==
    /\ registry' = check_loop(registry, other, resp)
    /\ last' = [op |-> "check"]
    /\ UNCHANGED now

----------------------------------------------------------------------------
(* Address::filter *)

\* What Clore::my_orders() and Ssh::try_run_command_remote() hand to filter():
\* the pairs (address, deployed) and the error list.
\* The binding the status query reports for an address it finds on a machine.
StatusBindings ==
    {DEPLOYED([orderid |-> 8, serverid |-> 4, sshaddr |-> Some("h"), sshport |-> Some(22)])}
StatusPairs == {<<a, d>> : a \in Addrs, d \in StatusBindings}
StatusLists == UNION {[1..n -> StatusPairs] : n \in 0..MaxPairs}
ErrorLists == {<<>>, <<"ssh">>}

\* Lines 198-204: every wallet of the vector `wallets` whose address is the
\* pair's gets the pair's deployed; a later pair overwrites an earlier one.
RECURSIVE refresh(_, _)
refresh(wallets, lists) ==
    IF lists = <<>> THEN wallets
    ELSE LET address == Head(lists)[1]
             deployed == Head(lists)[2]
         IN  refresh([i \in DOMAIN wallets |->
                        IF wallets[i].address = address
                        THEN [wallets[i] EXCEPT !.deploy = deployed]
                        ELSE wallets[i]],
                     Tail(lists))

\* is_candidate without the role test.
is_candidate_any_role(wallet) ==
    wallet.deploy = NOTASSIGNED

\* Line 208: the test a registry wallet passes to be pushed.
is_candidate(wallet) ==
    wallet.addr_type = "SUB" /\ wallet.deploy = NOTASSIGNED

\* Lines 207-211: the clones pushed, in the order the map is visited.
candidates(reg, order) ==
    LET picked == SelectSeq(order, LAMBDA a : is_candidate(reg[a]))
    IN  [i \in DOMAIN picked |-> reg[picked[i]]]

\* aborts with the error list ignored.
aborts_never(ordersOk, error) == FALSE

\* Line 195: the early return.
aborts(ordersOk, error) == ordersOk /\ error # <<>>

\* filter(): `wallets` is the vector declared at line 191, empty when the
\* pairs are applied to it; the registry itself is only read.
filter(ordersOk, lists, error, order) ==
    LET wallets0 == <<>>
        wallets1 == IF ordersOk THEN refresh(wallets0, lists) ELSE wallets0
        ret == IF aborts(ordersOk, error) THEN wallets0
               ELSE wallets1 \o candidates(registry, order)
    IN  /\ registry' = registry
        /\ last' = [op |-> "filter", orders_ok |-> ordersOk, error |-> error, ret |-> ret]
        /\ UNCHANGED now

----------------------------------------------------------------------------
(* Address::assgin_server *)

\* The binding a call finds under the address, for the record in `last`.
found(wallet_adress) ==
    IF wallet_adress \in DOMAIN registry
    THEN registry[wallet_adress].deploy.tag ELSE "absent"

\* assgin_server with start_time stamped before the binding is tested.
assgin_server_stamps_first(wallet_adress, deploy) ==
    /\ UNCHANGED now
    /\ IF wallet_adress \notin DOMAIN registry
       THEN /\ registry' = registry
            /\ last' = [op |-> "assgin_server", addr |-> wallet_adress,
                        was |-> found(wallet_adress), ret |-> "ErrNotFound"]
       ELSE IF registry[wallet_adress].deploy = NOTASSIGNED
            THEN /\ registry' =
                      [registry EXCEPT ![wallet_adress].deploy = deploy,
                                       ![wallet_adress].start_time = Some(now)]
                 /\ last' = [op |-> "assgin_server", addr |-> wallet_adress,
                             was |-> found(wallet_adress), ret |-> "Ok"]
            ELSE /\ registry' =
                      [registry EXCEPT ![wallet_adress].start_time = Some(now)]
                 /\ last' = [op |-> "assgin_server", addr |-> wallet_adress,
                             was |-> found(wallet_adress), ret |-> "ErrConflict"]

assgin_server(wallet_adress, deploy) ==
    /\ UNCHANGED now
    /\ IF wallet_adress \notin DOMAIN registry
       THEN /\ registry' = registry
            /\ last' = [op |-> "assgin_server", addr |-> wallet_adress,
                        was |-> found(wallet_adress), ret |-> "ErrNotFound"]
       ELSE LET local_time == now
            IN  IF registry[wallet_adress].deploy = NOTASSIGNED
                THEN /\ registry' =
                          [registry EXCEPT ![wallet_adress].deploy = deploy,
                                           ![wallet_adress].start_time = Some(local_time)]
                     /\ last' = [op |-> "assgin_server", addr |-> wallet_adress,
                                 was |-> found(wallet_adress), ret |-> "Ok"]
                ELSE /\ registry' = registry
                     /\ last' = [op |-> "assgin_server", addr |-> wallet_adress,
                                 was |-> found(wallet_adress), ret |-> "ErrConflict"]

----------------------------------------------------------------------------
(* Address::update_log_collect_time *)

\* update_log_collect_time with the connection port not copied.
update_log_collect_time_drops_port(wallet_adress) ==
    /\ UNCHANGED now
    /\ IF wallet_adress \notin DOMAIN registry
       THEN /\ registry' = registry
            /\ last' = [op |-> "update_log_collect_time", addr |-> wallet_adress,
                        was |-> found(wallet_adress), ret |-> FALSE]
       ELSE LET wallet == registry[wallet_adress]
            IN  /\ IF wallet.deploy.tag = "DEPLOYING"
                   THEN registry' =
                          [registry EXCEPT
                             ![wallet_adress].report_last_time = Some(now),
                             ![wallet_adress].deploy =
                                [tag |-> "DEPLOYED",
                                 orderid |-> wallet.deploy.orderid,
                                 serverid |-> wallet.deploy.serverid,
                                 sshaddr |-> wallet.deploy.sshaddr,
                                 sshport |-> None]]
                   ELSE registry' = registry
                /\ last' = [op |-> "update_log_collect_time", addr |-> wallet_adress,
                            was |-> found(wallet_adress), ret |-> TRUE]

\* update_log_collect_time stamping report_last_time on every bound wallet.
update_log_collect_time_restamps(wallet_adress) ==
    /\ UNCHANGED now
    /\ IF wallet_adress \notin DOMAIN registry
       THEN /\ registry' = registry
            /\ last' = [op |-> "update_log_collect_time", addr |-> wallet_adress,
                        was |-> found(wallet_adress), ret |-> FALSE]
       ELSE LET wallet == registry[wallet_adress]
            IN  /\ IF wallet.deploy.tag \in {"DEPLOYING", "DEPLOYED"}
                   THEN registry' =
                          [registry EXCEPT
                             ![wallet_adress].report_last_time = Some(now),
                             ![wallet_adress].deploy =
                                [tag |-> "DEPLOYED",
                                 orderid |-> wallet.deploy.orderid,
                                 serverid |-> wallet.deploy.serverid,
                                 sshaddr |-> wallet.deploy.sshaddr,
                                 sshport |-> wallet.deploy.sshport]]
                   ELSE registry' = registry
                /\ last' = [op |-> "update_log_collect_time", addr |-> wallet_adress,
                            was |-> found(wallet_adress), ret |-> TRUE]

update_log_collect_time(wallet_adress) ==
    /\ UNCHANGED now
    /\ IF wallet_adress \notin DOMAIN registry
       THEN /\ registry' = registry
            /\ last' = [op |-> "update_log_collect_time", addr |-> wallet_adress,
                        was |-> found(wallet_adress), ret |-> FALSE]
       ELSE LET wallet == registry[wallet_adress]
            IN  /\ IF wallet.deploy.tag = "DEPLOYING"
                   THEN LET local_time == now
                        IN  registry' =
                              [registry EXCEPT
                                 ![wallet_adress].report_last_time = Some(local_time),
                                 ![wallet_adress].deploy =
                                    [tag |-> "DEPLOYED",
                                     orderid |-> wallet.deploy.orderid,
                                     serverid |-> wallet.deploy.serverid,
                                     sshaddr |-> wallet.deploy.sshaddr,
                                     sshport |-> wallet.deploy.sshport]]
                   ELSE registry' = registry
                /\ last' = [op |-> "update_log_collect_time", addr |-> wallet_adress,
                            was |-> found(wallet_adress), ret |-> TRUE]

----------------------------------------------------------------------------
(* Address::filter_log_timeout *)

\* timed_out with >= for >.
timed_out_inclusive(wallet, nowtime) ==
    CASE wallet.deploy.tag = "NOTASSIGNED" -> FALSE
      [] wallet.deploy.tag = "DEPLOYING" ->
            /\ wallet.start_time # None
            /\ timestamp(nowtime) - timestamp(wallet.start_time[1]) >= PendingTimeout
      [] wallet.deploy.tag = "DEPLOYED" ->
            /\ wallet.report_last_time # None
            /\ timestamp(nowtime) - timestamp(wallet.report_last_time[1]) >= ActiveTimeout

\* Lines 266-284: whether the loop pushes this wallet's orderid.
timed_out(wallet, nowtime) ==
    CASE wallet.deploy.tag = "NOTASSIGNED" -> FALSE
      [] wallet.deploy.tag = "DEPLOYING" ->
            /\ wallet.start_time # None
            /\ timestamp(nowtime) - timestamp(wallet.start_time[1]) > PendingTimeout
      [] wallet.deploy.tag = "DEPLOYED" ->
            /\ wallet.report_last_time # None
            /\ timestamp(nowtime) - timestamp(wallet.report_last_time[1]) > ActiveTimeout

\* The addresses whose orderid is pushed, in the order the map is visited.
flagged_wallets(reg, order, nowtime) ==
    SelectSeq(order, LAMBDA a : timed_out(reg[a], nowtime))

\* Lines 264-285: order_ids, one entry per wallet that timed out.
collect_order_ids(reg, order, nowtime) ==
    LET f == flagged_wallets(reg, order, nowtime)
    IN  [i \in DOMAIN f |-> reg[f[i]].deploy.orderid]

CancelResults == {"Ok", "Err"}

\* cancel_loop giving up at the first cancel_order that fails.
RECURSIVE cancel_loop_stops_on_err(_, _)
cancel_loop_stops_on_err(order_ids, results) ==
    IF order_ids = <<>> THEN <<>>
    ELSE IF Head(results) = "Err" THEN <<Head(order_ids)>>
    ELSE <<Head(order_ids)>>
            \o cancel_loop_stops_on_err(Tail(order_ids), Tail(results))

\* Lines 286-293: the cancel_order requests issued, whatever each returns.
RECURSIVE cancel_loop(_, _)
cancel_loop(order_ids, results) ==
    IF order_ids = <<>> THEN <<>>
    ELSE <<Head(order_ids)>> \o cancel_loop(Tail(order_ids), Tail(results))

\* The loop reads Local::now() once per wallet (line 265); one scan is taken
\* at one clock value.
filter_log_timeout(order, results) ==
    LET order_ids == collect_order_ids(registry, order, now)
    IN  /\ registry' = registry
        /\ last' = [op |-> "filter_log_timeout",
                    flagged |-> flagged_wallets(registry, order, now),
                    order_ids |-> order_ids,
                    cancel_requests |-> cancel_loop(order_ids, results),
                    cancel_results |-> results]
        /\ UNCHANGED now

----------------------------------------------------------------------------
(* The clock *)

Tick ==
    /\ \E t \in TimePoints : t > now /\ now' = t
    /\ last' = [op |-> "tick"]
    /\ UNCHANGED <<registry, hist, sched>>

----------------------------------------------------------------------------
(* The specification: any sequence of the registry's operations, starting   *)
(* from Address::default(), the empty map.                                  *)

\* The tasks other than pool() that use WALLETS_STATE.
Tasks == {"t1"}

\* No check() has been logged.
NotAsked == [other |-> <<>>, resp |-> <<>>]

Init ==
    /\ registry = [a \in {} |-> NOTASSIGNED]
    /\ now = 0
    /\ last = [op |-> "init"]
    /\ reported = [a \in Addrs |-> None]
    /\ asked = NotAsked
    /\ pc = "start"
    /\ loaded = <<>>
    /\ holders = {}
    /\ waiters = <<>>
    /\ tpc = [t \in Tasks |-> "idle"]

Check(configs) ==
    \E other \in configs : \E resp \in RespSeqs(registry, other) :
        check(other, resp) /\ UNCHANGED <<hist, sched>>

Filter ==
    \E order \in IterOrders(registry) :
        /\ \/ filter(FALSE, <<>>, <<>>, order)
           \/ \E lists \in StatusLists, error \in ErrorLists :
                 filter(TRUE, lists, error, order)
        /\ UNCHANGED <<hist, sched>>

Assign(bindings) ==
    \E a \in Addrs, d \in bindings : assgin_server(a, d) /\ UNCHANGED <<hist, sched>>

Report ==
    \E a \in Addrs : update_log_collect_time(a) /\ UNCHANGED <<hist, sched>>

Reap ==
    \E order \in IterOrders(registry) :
        \E results \in [1..Len(collect_order_ids(registry, order, now)) -> CancelResults] :
            filter_log_timeout(order, results) /\ UNCHANGED <<hist, sched>>

Next ==
    \/ Check(CfgLists)
    \/ Filter
    \/ Assign(Deployed)
    \/ Report
    \/ Reap
    \/ Tick

Spec == Init /\ [][Next]_vars

----------------------------------------------------------------------------
(* The same operations with the reports logged, for one configured address  *)
(* and callers that assign DEPLOYING bindings only.                         *)

ReportLogged ==
    \E a \in Addrs :
        /\ update_log_collect_time(a)
        /\ reported' = IF a \in DOMAIN registry
                       THEN [reported EXCEPT ![a] = Some(now)]
                       ELSE reported
        /\ UNCHANGED <<asked, sched>>

NextReported ==
    \/ Check({<<"a1">>})
    \/ Filter
    \/ Assign({DEPLOYING(p) : p \in Payloads})
    \/ ReportLogged
    \/ Reap
    \/ Tick

SpecReported == Init /\ [][NextReported]_vars

----------------------------------------------------------------------------
(* The same operations at one instant of the clock (check() reads neither   *)
(* the clock nor a timestamp), with the inputs of check() logged until the  *)
(* next call of any operation.                                              *)

CheckLogged ==
    \E other \in CfgLists : \E resp \in RespSeqs(registry, other) :
        /\ check(other, resp)
        /\ asked' = [other |-> other, resp |-> resp]
        /\ UNCHANGED <<reported, sched>>

FilterAfter ==
    \E order \in IterOrders(registry) :
        /\ \/ filter(FALSE, <<>>, <<>>, order)
           \/ \E lists \in StatusLists, error \in ErrorLists :
                 filter(TRUE, lists, error, order)
        /\ asked' = NotAsked
        /\ UNCHANGED <<reported, sched>>

AssignAfter ==
    \E a \in Addrs, d \in Deployed :
        assgin_server(a, d) /\ asked' = NotAsked /\ UNCHANGED <<reported, sched>>

ReportAfter ==
    \E a \in Addrs :
        update_log_collect_time(a) /\ asked' = NotAsked /\ UNCHANGED <<reported, sched>>

ReapAfter ==
    \E order \in IterOrders(registry) :
        \E results \in [1..Len(collect_order_ids(registry, order, now)) -> CancelResults] :
            /\ filter_log_timeout(order, results)
            /\ asked' = NotAsked
            /\ UNCHANGED <<reported, sched>>

NextClassify ==
    \/ CheckLogged
    \/ FilterAfter
    \/ AssignAfter
    \/ ReportAfter
    \/ ReapAfter

SpecClassify == Init /\ [][NextClassify]_vars

----------------------------------------------------------------------------
(* pool() and the other tasks, all going through the Mutex of WALLETS_STATE *)
(* (tokio::sync::Mutex: at most one guard, waiters served first come first *)
(* served).  The clock stands still here: no step of the loop reads it.    *)

\* lock().await, first half: the task queues up.
lock_request(t) ==
    /\ waiters' = Append(waiters, t)
    /\ UNCHANGED holders

\* lock().await, second half: the Mutex is free and t is first in line.
lock_acquire(t) ==
    /\ holders = {}
    /\ waiters # <<>> /\ Head(waiters) = t
    /\ holders' = {t}
    /\ waiters' = Tail(waiters)

\* drop(guard).
drop_guard(t) ==
    /\ holders' = holders \ {t}
    /\ UNCHANGED waiters

PoolRequest ==
    /\ pc = "start"
    /\ lock_request("pool")
    /\ pc' = "wait"
    /\ UNCHANGED <<registry, now, last, hist, loaded, tpc>>

PoolAcquire ==
    /\ pc = "wait"
    /\ lock_acquire("pool")
    /\ pc' = "load"
    /\ UNCHANGED <<registry, now, last, hist, loaded, tpc>>

PoolLoad ==
    /\ pc = "load"
    /\ loaded' \in CfgLists
    /\ pc' = "check"
    /\ UNCHANGED <<registry, now, last, hist, holders, waiters, tpc>>

\* PoolCheck letting go of the guard once check() is back.
PoolCheckUnlocks ==
    /\ pc = "check"
    /\ \E resp \in RespSeqs(registry, loaded) : check(loaded, resp)
    /\ pc' = "filter"
    /\ loaded' = <<>>
    /\ drop_guard("pool")
    /\ UNCHANGED <<hist, tpc>>

\* `other` is not read after check(); it is dropped here.
PoolCheck ==
    /\ pc = "check"
    /\ \E resp \in RespSeqs(registry, loaded) : check(loaded, resp)
    /\ pc' = "filter"
    /\ loaded' = <<>>
    /\ UNCHANGED <<hist, holders, waiters, tpc>>

PoolFilter ==
    /\ pc = "filter"
    /\ \E order \in IterOrders(registry) :
          \/ filter(FALSE, <<>>, <<>>, order)
          \/ \E lists \in StatusLists, error \in ErrorLists :
                filter(TRUE, lists, error, order)
    /\ pc' = "drop"
    /\ UNCHANGED <<hist, loaded, holders, waiters, tpc>>

\* PoolDrop going to sleep with the guard.
PoolDropKeepsGuard ==
    /\ pc = "drop"
    /\ pc' = "sleep"
    /\ UNCHANGED <<registry, now, last, hist, loaded, holders, waiters, tpc>>

PoolDrop ==
    /\ pc = "drop"
    /\ drop_guard("pool")
    /\ pc' = "sleep"
    /\ UNCHANGED <<registry, now, last, hist, loaded, tpc>>

\* The sleep of five minutes is over.
PoolWake ==
    /\ pc = "sleep"
    /\ pc' = "start"
    /\ UNCHANGED <<registry, now, last, hist, loaded, holders, waiters, tpc>>

PoolStep ==
    \/ PoolRequest
    \/ PoolAcquire
    \/ PoolLoad
    \/ PoolCheck
    \/ PoolFilter
    \/ PoolDrop
    \/ PoolWake

TaskRequest(t) ==
    /\ tpc[t] = "idle"
    /\ lock_request(t)
    /\ tpc' = [tpc EXCEPT ![t] = "wait"]
    /\ UNCHANGED <<registry, now, last, hist, pc, loaded>>

TaskAcquire(t) ==
    /\ tpc[t] = "wait"
    /\ lock_acquire(t)
    /\ tpc' = [tpc EXCEPT ![t] = "held"]
    /\ UNCHANGED <<registry, now, last, hist, pc, loaded>>

\* One call on the registry through the guard.
TaskCall(t) ==
    /\ tpc[t] = "held"
    /\ \/ \E a \in Addrs, d \in Deployed : assgin_server(a, d)
       \/ \E a \in Addrs : update_log_collect_time(a)
       \/ \E order \in IterOrders(registry) :
            \E results \in [1..Len(collect_order_ids(registry, order, now))
                                -> CancelResults] :
                filter_log_timeout(order, results)
    /\ tpc' = [tpc EXCEPT ![t] = "called"]
    /\ UNCHANGED <<hist, pc, loaded, holders, waiters>>

TaskDrop(t) ==
    /\ tpc[t] = "called"
    /\ drop_guard(t)
    /\ tpc' = [tpc EXCEPT ![t] = "idle"]
    /\ UNCHANGED <<registry, now, last, hist, pc, loaded>>

NextPool ==
    \/ PoolRequest
    \/ PoolAcquire
    \/ PoolLoad
    \/ PoolCheck
    \/ PoolFilter
    \/ PoolDrop
    \/ PoolWake
    \/ \E t \in Tasks : TaskRequest(t)
    \/ \E t \in Tasks : TaskAcquire(t)
    \/ \E t \in Tasks : TaskCall(t)
    \/ \E t \in Tasks : TaskDrop(t)

SpecPool == Init /\ [][NextPool]_vars

\* Every await of the loop returns and the runtime runs a task that can run;
\* a task need not ever ask for the lock.
SpecPoolFair ==
    /\ Init /\ [][NextPool]_vars
    /\ WF_vars(PoolStep)
    /\ \A t \in Tasks :
          WF_vars(TaskAcquire(t)) /\ WF_vars(TaskCall(t)) /\ WF_vars(TaskDrop(t))

----------------------------------------------------------------------------
(* Properties *)

Range(s) == {s[i] : i \in DOMAIN s}
Count(x, s) == Cardinality({i \in DOMAIN s : s[i] = x})
Bound(wallet) == wallet.deploy.tag \in {"DEPLOYING", "DEPLOYED"}

\* C1: for every registered wallet whose binding is NOTASSIGNED and every
\* binding argument, assgin_server returns Ok, sets start_time to the time of
\* the call and leaves the wallet DEPLOYING.
C1_AssignUnboundGoesPending ==
    [][\A a \in Addrs, d \in Deployed :
         (/\ a \in DOMAIN registry
          /\ registry[a].deploy = NOTASSIGNED
          /\ assgin_server(a, d))
         => /\ last'.ret = "Ok"
            /\ registry'[a].start_time = Some(now)
            /\ registry'[a].deploy.tag = "DEPLOYING"]_vars

\* C2: assgin_server fails with the not-found error for an address absent
\* from the registry and with the conflict error for a wallet that is
\* DEPLOYING or DEPLOYED, and in both cases the whole registry is unchanged.
C2_AssignFailureLeavesRegistry ==
    [][last'.op = "assgin_server"
       => /\ last'.addr \notin DOMAIN registry
               => last'.ret = "ErrNotFound" /\ registry' = registry
          /\ (last'.addr \in DOMAIN registry /\ Bound(registry[last'.addr]))
               => last'.ret = "ErrConflict" /\ registry' = registry]_vars

C2_Witness ==
    /\ last.op = "assgin_server"
    /\ last.ret = "ErrConflict"
    /\ last.was \in {"DEPLOYING", "DEPLOYED"}
    /\ Bound(registry[last.addr])
    /\ registry[last.addr].start_time # Some(now)

\* C3: update_log_collect_time on a registered DEPLOYING wallet returns true,
\* sets report_last_time to the time of the call and makes the wallet DEPLOYED
\* with the orderid, serverid, sshaddr and sshport it had; its start_time,
\* addr_type and address, and every other wallet, are unchanged.
C3_ReportActivatesPending ==
    [][(/\ last'.op = "update_log_collect_time"
        /\ last'.addr \in DOMAIN registry
        /\ registry[last'.addr].deploy.tag = "DEPLOYING")
       => LET a == last'.addr
          IN  /\ last'.ret = TRUE
              /\ DOMAIN registry' = DOMAIN registry
              /\ registry'[a].report_last_time = Some(now)
              /\ registry'[a].deploy.tag = "DEPLOYED"
              /\ registry'[a].deploy.orderid = registry[a].deploy.orderid
              /\ registry'[a].deploy.serverid = registry[a].deploy.serverid
              /\ registry'[a].deploy.sshaddr = registry[a].deploy.sshaddr
              /\ registry'[a].deploy.sshport = registry[a].deploy.sshport
              /\ registry'[a].start_time = registry[a].start_time
              /\ registry'[a].addr_type = registry[a].addr_type
              /\ registry'[a].address = registry[a].address
              /\ \A b \in DOMAIN registry \ {a} : registry'[b] = registry[b]]_vars

C3_Witness ==
    /\ last.op = "update_log_collect_time"
    /\ last.was = "DEPLOYING"
    /\ last.ret = TRUE
    /\ registry[last.addr].deploy.tag = "DEPLOYED"
    /\ registry[last.addr].deploy.sshport = Some(22)
    /\ registry[last.addr].report_last_time = Some(now)
    /\ registry[last.addr].start_time # Some(now)

\* C4: update_log_collect_time returns false and changes nothing for an
\* address absent from the registry; for a wallet that is DEPLOYED or
\* NOTASSIGNED it returns true and leaves the whole registry unchanged.
C4_ReportElsewhereChangesNothing ==
    [][last'.op = "update_log_collect_time"
       => /\ last'.addr \notin DOMAIN registry
               => last'.ret = FALSE /\ registry' = registry
          /\ (/\ last'.addr \in DOMAIN registry
              /\ registry[last'.addr].deploy.tag \in {"DEPLOYED", "NOTASSIGNED"})
               => last'.ret = TRUE /\ registry' = registry]_vars

C4_Witness ==
    /\ last.op = "update_log_collect_time"
    /\ last.was = "DEPLOYED"
    /\ last.ret = TRUE
    /\ registry[last.addr].deploy.tag = "DEPLOYED"
    /\ registry[last.addr].report_last_time # None
    /\ registry[last.addr].report_last_time # Some(now)

\* C5: at a scan, a DEPLOYED wallet whose latest report was received at most
\* 10 minutes before has report_last_time equal to the time of that report,
\* and its order is not flagged by the scan.
C5_ReportingWalletNotReleased ==
    last.op = "filter_log_timeout"
    => \A a \in DOMAIN registry :
         (/\ registry[a].deploy.tag = "DEPLOYED"
          /\ reported[a] # None
          /\ now - reported[a][1] <= 600 * TicksPerSec)
         => /\ registry[a].report_last_time = reported[a]
            /\ a \notin Range(last.flagged)

\* C6: in one scan at clock value now, a wallet's orderid is pushed if and
\* only if the wallet is DEPLOYING with a start_time more than 900 whole
\* seconds before now, or DEPLOYED with a report_last_time more than 600
\* whole seconds before now; order_ids holds the orderids of those wallets.
C6_FlaggedIffPastDeadline ==
    last.op = "filter_log_timeout"
    => /\ \A a \in DOMAIN registry :
            a \in Range(last.flagged)
            <=> LET w == registry[a]
                IN  \/ /\ w.deploy.tag = "DEPLOYING"
                       /\ w.start_time # None
                       /\ (now \div TicksPerSec) - (w.start_time[1] \div TicksPerSec) > 900
                    \/ /\ w.deploy.tag = "DEPLOYED"
                       /\ w.report_last_time # None
                       /\ (now \div TicksPerSec) - (w.report_last_time[1] \div TicksPerSec) > 600
       /\ Len(last.order_ids) = Len(last.flagged)
       /\ \A i \in DOMAIN last.flagged :
            /\ last.order_ids[i] = registry[last.flagged[i]].deploy.orderid
            /\ \A j \in DOMAIN last.flagged : i # j => last.flagged[i] # last.flagged[j]

\* A scan 901 s after start_time flags a DEPLOYING wallet while the other
\* wallet, DEPLOYED and within 600 s of its report, is not flagged.
C6_Witness ==
    /\ last.op = "filter_log_timeout"
    /\ \E a \in DOMAIN registry :
         /\ registry[a].deploy.tag = "DEPLOYING"
         /\ registry[a].start_time # None
         /\ timestamp(now) - timestamp(registry[a].start_time[1]) = 901
         /\ a \in Range(last.flagged)
    /\ \E a \in DOMAIN registry :
         /\ registry[a].deploy.tag = "DEPLOYED"
         /\ registry[a].report_last_time # None
         /\ timestamp(now) - timestamp(registry[a].report_last_time[1]) <= 600
         /\ a \notin Range(last.flagged)

\* C7: in one scan, exactly one cancel_order request is issued for every
\* orderid that was flagged, and none for an orderid that was not.
C7_OneCancelPerFlaggedOrder ==
    last.op = "filter_log_timeout"
    => /\ \A o \in Range(last.order_ids) : Count(o, last.cancel_requests) = 1
       /\ \A o \in Range(last.cancel_requests) : o \in Range(last.order_ids)

\* C8: when filter() obtains the orders and the status query returns pairs
\* with an empty error list, every registry wallet whose address is in a pair
\* has, after filter(), the binding of (the last of) its pairs.
C8_RefreshOverwritesBinding ==
    [][\A order \in IterOrders(registry), lists \in StatusLists :
         filter(TRUE, lists, <<>>, order)
         => \A i \in DOMAIN lists :
              (/\ lists[i][1] \in DOMAIN registry'
               /\ \A j \in DOMAIN lists : j > i => lists[j][1] # lists[i][1])
              => registry'[lists[i][1]].deploy = lists[i][2]]_vars

\* C9: when filter() is not aborted, the list it returns holds exactly the
\* registry wallets that are SUB and NOTASSIGNED as filter() returns, each
\* once, and so no MASTER and no DEPLOYING or DEPLOYED wallet.
C9_CandidatesAreUnboundSubs ==
    (last.op = "filter" /\ ~(last.orders_ok /\ last.error # <<>>))
    => /\ \A i \in DOMAIN last.ret :
            /\ last.ret[i].address \in DOMAIN registry
            /\ last.ret[i] = registry[last.ret[i].address]
            /\ last.ret[i].addr_type = "SUB"
            /\ last.ret[i].deploy = NOTASSIGNED
       /\ \A a \in DOMAIN registry :
            (registry[a].addr_type = "SUB" /\ registry[a].deploy = NOTASSIGNED)
            => Cardinality({i \in DOMAIN last.ret : last.ret[i].address = a}) = 1
       /\ \A a \in DOMAIN registry :
            (registry[a].addr_type # "SUB" \/ registry[a].deploy # NOTASSIGNED)
            => \A i \in DOMAIN last.ret : last.ret[i].address # a

\* The orders were listed and the status query reported no error; one wallet
\* is returned, the other is a MASTER, NOTASSIGNED as well.
C9_Witness ==
    /\ last.op = "filter"
    /\ last.orders_ok
    /\ last.error = <<>>
    /\ Len(last.ret) = 1
    /\ \E a \in DOMAIN registry :
         registry[a].addr_type = "MASTER" /\ registry[a].deploy = NOTASSIGNED

\* C10: if the status query reports a non-empty error list, filter() returns
\* the empty list and the registry is unchanged, whatever pairs came with it.
C10_AbortReturnsNothing ==
    [][(last'.op = "filter" /\ last'.orders_ok /\ last'.error # <<>>)
       => last'.ret = <<>> /\ registry' = registry]_vars

C10_Witness ==
    /\ last.op = "filter"
    /\ last.orders_ok
    /\ last.error # <<>>
    /\ last.ret = <<>>
    /\ \E a \in DOMAIN registry : is_candidate(registry[a])

----------------------------------------------------------------------------
(* Properties of check() *)

\* What the two endpoints answered, read off the logged results.
MasterOk(mst) == mst.ok /\ "Error" \notin mst.text
SubOk(sub) == sub.ok /\ "Task registered successfully" \in sub.text

\* The turns of `address` in the logged check().
TurnsAfter(address) == {i \in DOMAIN asked'.other : asked'.other[i] = address}

\* C11: a check() leaves every wallet that was registered before it exactly
\* as it was and asks the remote service nothing about its address, however
\* often the address is in the list; and no step of any operation removes a
\* wallet or changes its role.
C11_CheckSkipsKnownAddresses ==
    [][/\ last'.op = "check"
            => \A a \in DOMAIN registry :
                  /\ a \in DOMAIN registry' /\ registry'[a] = registry[a]
                  /\ \A i \in TurnsAfter(a) : ~asked'.resp[i].called
       /\ \A a \in DOMAIN registry :
              /\ a \in DOMAIN registry'
              /\ registry'[a].addr_type = registry[a].addr_type]_vars

\* A check() has just skipped an address whose wallet is bound and carries
\* both timestamps, and has classified another address in the same run.
C11_Witness ==
    /\ last.op = "check"
    /\ \E i \in DOMAIN asked.other :
          /\ ~asked.resp[i].called
          /\ asked.other[i] \in DOMAIN registry
          /\ registry[asked.other[i]].deploy.tag = "DEPLOYED"
          /\ registry[asked.other[i]].start_time # None
          /\ registry[asked.other[i]].report_last_time # None
    /\ \E j \in DOMAIN asked.other : asked.resp[j].called

\* C12: for an address that was not registered before a check(), the first
\* turn at which a remote check succeeds inserts a fresh wallet (no binding,
\* no start_time, no report_last_time): MASTER if the master check succeeded
\* at that turn, whatever the sub check said, SUB otherwise; if no turn
\* succeeds nothing is inserted.  Every turn has both results before it
\* classifies.
C12_CheckInsertsByPrecedence ==
    [][last'.op = "check"
        => \A a \in Range(asked'.other) \ DOMAIN registry :
              LET hits == {i \in TurnsAfter(a) :
                              /\ asked'.resp[i].called
                              /\ \/ MasterOk(asked'.resp[i].mst)
                                 \/ SubOk(asked'.resp[i].sub)}
                  first == CHOOSE i \in hits : \A j \in hits : i <= j
              IN  /\ \A i \in TurnsAfter(a) :
                        asked'.resp[i].called
                            => DOMAIN asked'.resp[i] = {"called", "sub", "mst"}
                  /\ hits = {} => a \notin DOMAIN registry'
                  /\ hits # {} =>
                        /\ a \in DOMAIN registry'
                        /\ registry'[a] =
                              [address |-> a,
                               addr_type |->
                                  IF MasterOk(asked'.resp[first].mst)
                                  THEN "MASTER" ELSE "SUB",
                               start_time |-> None,
                               report_last_time |-> None,
                               deploy |-> NOTASSIGNED]]_vars

\* A check() has just inserted a MASTER wallet for an address both of whose
\* checks succeeded, next to a SUB wallet.
C12_Witness ==
    /\ last.op = "check"
    /\ \E i \in DOMAIN asked.other :
          /\ asked.resp[i].called
          /\ MasterOk(asked.resp[i].mst) /\ SubOk(asked.resp[i].sub)
          /\ asked.other[i] \in DOMAIN registry
          /\ registry[asked.other[i]].addr_type = "MASTER"
    /\ \E a \in DOMAIN registry : registry[a].addr_type = "SUB"

\* C13 as stated: an address that was not registered before a check() and
\* for which, at every turn, at least one of the two calls failed
\* transport-wise, is not registered after it.
C13_AnyTransportFailureUnclassified ==
    [][last'.op = "check"
        => \A a \in Range(asked'.other) \ DOMAIN registry :
              (\A i \in TurnsAfter(a) :
                    asked'.resp[i].called
                        => ~asked'.resp[i].sub.ok \/ ~asked'.resp[i].mst.ok)
                  => a \notin DOMAIN registry']_vars

\* C13 amended: a call that fails transport-wise counts as a negative answer
\* of that check.  An address that was not registered before a check() and
\* for which, at every turn, at least one of the two calls failed, is
\* registered after it exactly when at some turn the call that did not fail
\* succeeded; when both calls fail at every turn it is not registered.
C13_TransportFailureIsNegative ==
    [][last'.op = "check"
        => \A a \in Range(asked'.other) \ DOMAIN registry :
              (\A i \in TurnsAfter(a) :
                    asked'.resp[i].called
                        => ~asked'.resp[i].sub.ok \/ ~asked'.resp[i].mst.ok)
                  => (a \in DOMAIN registry'
                        <=> \E i \in TurnsAfter(a) :
                               /\ asked'.resp[i].called
                               /\ \/ /\ ~asked'.resp[i].sub.ok
                                     /\ MasterOk(asked'.resp[i].mst)
                                  \/ /\ ~asked'.resp[i].mst.ok
                                     /\ SubOk(asked'.resp[i].sub))]_vars

\* A check() has just left out an address both of whose calls failed.
C13_Witness ==
    /\ last.op = "check"
    /\ \E i \in DOMAIN asked.other :
          /\ asked.resp[i].called
          /\ ~asked.resp[i].sub.ok /\ ~asked.resp[i].mst.ok
          /\ asked.other[i] \notin DOMAIN registry

\* C14: in every reachable state the wallet stored under a key has that key
\* as its address and a role of MASTER or SUB, never NULL.  (The registry is
\* a map, so a key is there at most once.)
C14_RegistryWellFormed ==
    \A a \in DOMAIN registry :
        /\ registry[a].address = a
        /\ registry[a].addr_type \in {"MASTER", "SUB"}

\* Both addresses are registered, one of them bound, after a check() that
\* found nothing to add.
C14_Witness ==
    /\ DOMAIN registry = Addrs
    /\ \E a \in Addrs : Bound(registry[a])
    /\ \E a, b \in Addrs :
          registry[a].addr_type = "MASTER" /\ registry[b].addr_type = "SUB"
    /\ last.op = "check"

----------------------------------------------------------------------------
(* Properties of the binding and of the scan *)

\* C16: on every step the binding of a registered wallet either keeps its
\* state or goes NOTASSIGNED -> DEPLOYING in an assgin_server that returned
\* Ok, or DEPLOYING -> DEPLOYED in an update_log_collect_time; never
\* NOTASSIGNED -> DEPLOYED, never back to NOTASSIGNED, never DEPLOYED ->
\* DEPLOYING.
C16_BindingStateMachine ==
    [][\A a \in DOMAIN registry :
          LET was == registry[a].deploy.tag
              is  == registry'[a].deploy.tag
          IN  was # is
                => \/ /\ was = "NOTASSIGNED" /\ is = "DEPLOYING"
                      /\ last'.op = "assgin_server" /\ last'.ret = "Ok"
                   \/ /\ was = "DEPLOYING" /\ is = "DEPLOYED"
                      /\ last'.op = "update_log_collect_time"]_vars

\* C17: a wallet without a binding has no start_time; start_time appears in
\* the step that creates the binding; once there it never changes.
C17_StartTimeSetOnce ==
    [][\A a \in DOMAIN registry :
          /\ registry[a].deploy.tag = "NOTASSIGNED"
                => registry[a].start_time = None
          /\ registry[a].start_time # None
                => registry'[a].start_time = registry[a].start_time
          /\ (registry[a].start_time = None /\ registry'[a].start_time # None)
                => /\ registry[a].deploy.tag = "NOTASSIGNED"
                   /\ registry'[a].deploy.tag # "NOTASSIGNED"]_vars

C20_BoundWalletHasItsDeadline ==
    \A a \in DOMAIN registry :
        /\ registry[a].deploy.tag = "DEPLOYING" => registry[a].start_time # None
        /\ registry[a].deploy.tag = "DEPLOYED"
              => registry[a].report_last_time # None

----------------------------------------------------------------------------
(* Properties of pool() *)

\* Where pool() stands between lock().await returning and drop(locked).
InCycle == {"load", "check", "filter", "drop"}

\* C15: the Mutex never has two holders; from before load_address_file()
\* until after filter() has returned pool() is its holder; and a step taken
\* meanwhile by anyone but pool() leaves the registry as it is, so filter()
\* reads the registry check() left.
C15_CycleIsExclusive ==
    [][/\ Cardinality(holders) <= 1
       /\ pc \in InCycle => holders = {"pool"}
       /\ (pc \in InCycle /\ pc' = pc) => registry' = registry]_vars

\* Between check() and filter() another task is waiting for the lock, with a
\* wallet in the registry it could act on.
C15_Witness ==
    /\ pc = "filter"
    /\ holders = {"pool"}
    /\ \E t \in Tasks : tpc[t] = "wait" /\ Head(waiters) = t
    /\ \E a \in DOMAIN registry : registry[a].deploy.tag = "NOTASSIGNED"

\* C19: every cycle that has the lock reaches the sleep with the lock
\* released; the loop starts a cycle again and again; and a task waiting for
\* the lock comes to hold it.
C19_CycleEndsAndLockIsPassed ==
    /\ [](pc \in InCycle => <>(pc = "sleep" /\ "pool" \notin holders))
    /\ []<>(pc = "load")
    /\ \A t \in Tasks : [](tpc[t] = "wait" => <>(t \in holders))

\* pool() sleeps after a cycle in which the order listing failed, and the
\* task that waited through the cycle has the lock.
C19_Witness ==
    /\ pc = "sleep"
    /\ last.op = "filter" /\ ~last.orders_ok
    /\ \E t \in Tasks : tpc[t] = "held" /\ holders = {t}

============================================================================
